---- MODULE Spec2Model ----
(***************************************************************************)
(* fastq_add_cell (src/main.rs): the barcode transformer                   *)
(* process_cell_sequence, the record formatter fastq_record_to_string and  *)
(* the lockstep loop of main over the cell, r1 and (optional) r2 readers,  *)
(* writing through two gzip encoders.                                      *)
(*                                                                         *)
(* Byte strings (&[u8], and the UTF-8 bytes of a String) are sequences of  *)
(* integers 0..255.  Option<T> is <<>> (None) or <<x>> (Some(x)).          *)
(***************************************************************************)
EXTENDS Integers, Sequences, FiniteSets, TLC

VARIABLES
    \* ---- main(): the pipeline ----
    cli,          \* Cli: [from_char, to_char, recomp]
    cell_reader,  \* the valid records the cell reader still holds, consumed ones included
    r1_reader,    \* the same for r1
    r2_reader,    \* Option of the same for r2 (None: --r2 not given)
    cellPos,      \* records the cell reader has yielded so far
    r1Pos,        \* records the r1 reader has yielded so far
    r2Pos,        \* records the r2 reader has yielded so far
    r1_writer,    \* [calls, state]: every write call on the r1 encoder, and its finalization
    r2_writer,    \* Option of the same for the r2 encoder
    pc,           \* position in main: "pull", "write_r1", "write_r2", "drop", "done" ("idle": not run)
    stop,         \* which break or ? left the loop ("none" while it runs)
    result,       \* main's return value: "Ok", "Err" ("running" before it returns)
    shorts,       \* write calls so far that accepted only a prefix
    \* ---- process_cell_sequence on its own ----
    tin,          \* [seq, from_char, to_char, revcomp]: the arguments
    tout,         \* the value returned by the latest application
    tapplied      \* how many times it has been applied (0..2)

vars == <<cli, cell_reader, r1_reader, r2_reader, cellPos, r1Pos, r2Pos,
          r1_writer, r2_writer, pc, stop, result, shorts, tin, tout, tapplied>>

pipeVars == <<cli, cell_reader, r1_reader, r2_reader, cellPos, r1Pos, r2Pos,
              r1_writer, r2_writer, pc, stop, result, shorts>>

pureVars == <<tin, tout, tapplied>>

----------------------------------------------------------------------------
(* Bounds of the model *)

\* longest byte sequence enumerated exhaustively for process_cell_sequence
MaxLen == 3
\* largest --from-char / --to-char value enumerated
MaxClip == 4
\* most valid records an input stream holds
MaxRecs == 3
\* most write calls of one run that accept only a prefix of their buffer
MaxShort == 1

----------------------------------------------------------------------------
(* Option<T> *)

None == <<>>

Some(x) == <<x>>

unwrap_or(o, d) == IF o = None THEN d ELSE o[1]

----------------------------------------------------------------------------
(* Bytes *)

ByteA == 65
ByteC == 67
ByteG == 71
ByteN == 78
ByteT == 84
Bytea == 97
Bytec == 99
Byteg == 103
Byten == 110
Bytet == 116
ByteAt == 64
ByteSpace == 32
ByteNewline == 10
BytePlus == 43

\* U+FFFD REPLACEMENT CHARACTER in UTF-8, what from_utf8_lossy puts for each
\* invalid sequence
Replacement == <<239, 191, 189>>

SubSeqFrom(s, i) == SubSeq(s, i, Len(s))

RECURSIVE Reverse(_)
Reverse(s) == IF s = <<>> THEN <<>> ELSE Append(Reverse(Tail(s)), Head(s))

RECURSIVE Flatten(_)
Flatten(ss) == IF ss = <<>> THEN <<>> ELSE Head(ss) \o Flatten(Tail(ss))

\* s[i], or 0 past the end (core::str::lossy's safe_get)
SafeGet(s, i) == IF i <= Len(s) THEN s[i] ELSE 0

IsCont(b) == b >= 128 /\ b <= 191

\* Length of the chunk of s that starts at i and whether it is valid UTF-8, as
\* core::str::lossy::Utf8Chunks splits it: a whole scalar value, or the longest
\* prefix of one that is cut short by a byte that cannot follow.
Utf8Chunk(s, i) ==
    LET b  == s[i]
        b2 == SafeGet(s, i + 1)
        b3 == SafeGet(s, i + 2)
        b4 == SafeGet(s, i + 3)
    IN  IF b < 128 THEN [valid |-> TRUE, len |-> 1]
        ELSE IF b >= 194 /\ b <= 223 THEN
            IF IsCont(b2) THEN [valid |-> TRUE, len |-> 2]
            ELSE [valid |-> FALSE, len |-> 1]
        ELSE IF b >= 224 /\ b <= 239 THEN
            IF ~(\/ (b = 224 /\ b2 >= 160 /\ b2 <= 191)
                 \/ (b >= 225 /\ b <= 236 /\ IsCont(b2))
                 \/ (b = 237 /\ b2 >= 128 /\ b2 <= 159)
                 \/ (b >= 238 /\ b <= 239 /\ IsCont(b2)))
            THEN [valid |-> FALSE, len |-> 1]
            ELSE IF ~IsCont(b3) THEN [valid |-> FALSE, len |-> 2]
            ELSE [valid |-> TRUE, len |-> 3]
        ELSE IF b >= 240 /\ b <= 244 THEN
            IF ~(\/ (b = 240 /\ b2 >= 144 /\ b2 <= 191)
                 \/ (b >= 241 /\ b <= 243 /\ IsCont(b2))
                 \/ (b = 244 /\ b2 >= 128 /\ b2 <= 143))
            THEN [valid |-> FALSE, len |-> 1]
            ELSE IF ~IsCont(b3) THEN [valid |-> FALSE, len |-> 2]
            ELSE IF ~IsCont(b4) THEN [valid |-> FALSE, len |-> 3]
            ELSE [valid |-> TRUE, len |-> 4]
        ELSE [valid |-> FALSE, len |-> 1]

RECURSIVE Utf8LossyFrom(_, _)
Utf8LossyFrom(s, i) ==
    IF i > Len(s) THEN <<>>
    ELSE LET c == Utf8Chunk(s, i)
         IN  (IF c.valid THEN SubSeq(s, i, i + c.len - 1) ELSE Replacement)
             \o Utf8LossyFrom(s, i + c.len)

\* String::from_utf8_lossy(bytes), as the UTF-8 bytes of the String it returns
from_utf8_lossy(s) == Utf8LossyFrom(s, 1)

----------------------------------------------------------------------------
(* process_cell_sequence *)

\* ComplementByte with the C arm mistyped: C stays C
ComplementByte_CStaysC(b) ==
    CASE b = ByteA \/ b = Bytea -> ByteT
      [] b = ByteT \/ b = Bytet -> ByteA
      [] b = ByteG \/ b = Byteg -> ByteC
      [] b = ByteC \/ b = Bytec -> ByteC
      [] b = ByteN \/ b = Byten -> ByteN
      [] OTHER -> ByteN

\* the match of the reverse-complement closure
ComplementByte(b) ==
    CASE b = ByteA \/ b = Bytea -> ByteT
      [] b = ByteT \/ b = Bytet -> ByteA
      [] b = ByteG \/ b = Byteg -> ByteC
      [] b = ByteC \/ b = Bytec -> ByteG
      [] b = ByteN \/ b = Byten -> ByteN
      [] OTHER -> ByteN

\* ClipWindow with the bounds check off by one: end < seq.len()
ClipWindow_StrictEnd(seq, from_char, to_char) ==
    LET start == unwrap_or(from_char, 0)
        end   == unwrap_or(to_char, Len(seq))
    IN  IF start < end /\ end < Len(seq)
        THEN SubSeq(seq, start + 1, end)
        ELSE seq

\* the bounds check: the window, or the whole sequence
ClipWindow(seq, from_char, to_char) ==
    LET start == unwrap_or(from_char, 0)
        end   == unwrap_or(to_char, Len(seq))
    IN  IF start < end /\ end <= Len(seq)
        THEN SubSeq(seq, start + 1, end)
        ELSE seq

\* ReverseComplement without .rev(): the complement in the window's own order
ReverseComplement_NoRev(clipped) ==
    [i \in 1..Len(clipped) |-> ComplementByte(clipped[i])]

ReverseComplement(clipped) ==
    LET r == Reverse(clipped)
    IN  [i \in 1..Len(r) |-> ComplementByte(r[i])]

process_cell_sequence(seq, from_char, to_char, revcomp) ==
    LET clipped   == ClipWindow(seq, from_char, to_char)
        final_seq == IF revcomp THEN ReverseComplement(clipped) ELSE clipped
    IN  from_utf8_lossy(final_seq)

----------------------------------------------------------------------------
(* fastq_record_to_string *)

fastq_record_to_string(id, desc, seq, qual) ==
    <<ByteAt>> \o from_utf8_lossy(id) \o <<ByteSpace>> \o from_utf8_lossy(desc)
        \o <<ByteNewline>>
        \o from_utf8_lossy(seq) \o <<ByteNewline>>
        \o <<BytePlus>> \o <<ByteNewline>>
        \o (IF qual # None THEN from_utf8_lossy(qual[1]) ELSE <<>>)
        \o <<ByteNewline>>

----------------------------------------------------------------------------
(* process_cell_sequence applied on its own (the unit tests of main.rs) *)

\* A, C, G, T, N in both cases, X, and bytes of multi-byte UTF-8: the lead
\* 0xC3 and the continuation 0xA9 (together U+00E9), and 0xFF, valid nowhere
Alphabet == {ByteA, ByteC, ByteG, ByteT, ByteN, Bytea, Bytec, Byteg, Bytet, Byten,
             88, 195, 169, 255}

RECURSIVE SeqsUpTo(_, _)
SeqsUpTo(S, n) ==
    IF n = 0 THEN {<<>>}
    ELSE LET shorter == SeqsUpTo(S, n - 1)
         IN  shorter \cup {Append(s, x) : s \in {t \in shorter : Len(t) = n - 1}, x \in S}

\* ACGTTAGC, ATGC, CCACCC (the unit tests); aCgTn; A U+00E9 T; U+20AC;
\* U+1F600; U+20AC cut after two bytes; X 0xFF a
LongSeqs == { <<65, 67, 71, 84, 84, 65, 71, 67>>, <<65, 84, 71, 67>>,
              <<67, 67, 65, 67, 67, 67>>, <<97, 67, 103, 84, 110>>,
              <<65, 195, 169, 84>>, <<226, 130, 172>>, <<240, 159, 152, 128>>,
              <<226, 130>>, <<88, 255, 97>> }

ClipOpts == {None} \cup {Some(n) : n \in 0..MaxClip}

\* the arguments of the five unit tests
TestInputs ==
    { [seq |-> <<65, 67, 71, 84, 84, 65, 71, 67>>, from_char |-> Some(2),
       to_char |-> Some(5), revcomp |-> TRUE],
      [seq |-> <<65, 84, 71, 67>>, from_char |-> None, to_char |-> None,
       revcomp |-> FALSE],
      [seq |-> <<65, 84, 71, 67>>, from_char |-> None, to_char |-> None,
       revcomp |-> TRUE],
      [seq |-> <<65, 84, 71, 67>>, from_char |-> Some(10), to_char |-> Some(0),
       revcomp |-> FALSE],
      [seq |-> <<67, 67, 65, 67, 67, 67>>, from_char |-> Some(2),
       to_char |-> Some(3), revcomp |-> TRUE] }

TransformInputs ==
    [seq : SeqsUpTo(Alphabet, MaxLen) \cup LongSeqs, from_char : ClipOpts,
     to_char : ClipOpts, revcomp : BOOLEAN] \cup TestInputs

\* the pipeline is not run
PipeIdle ==
    /\ cli = [from_char |-> None, to_char |-> None, recomp |-> FALSE]
    /\ cell_reader = <<>> /\ r1_reader = <<>> /\ r2_reader = None
    /\ cellPos = 0 /\ r1Pos = 0 /\ r2Pos = 0
    /\ r1_writer = [calls |-> <<>>, state |-> "open"]
    /\ r2_writer = None
    /\ pc = "idle" /\ stop = "none" /\ result = "running" /\ shorts = 0

InitTransform ==
    /\ PipeIdle
    /\ tin \in TransformInputs
    /\ tout = <<>>
    /\ tapplied = 0

\* result = process_cell_sequence(seq, from_char, to_char, revcomp)
Transform ==
    /\ tapplied = 0
    /\ tout' = process_cell_sequence(tin.seq, tin.from_char, tin.to_char, tin.revcomp)
    /\ tapplied' = 1
    /\ UNCHANGED <<tin, pipeVars>>

\* the same call on the bytes of the String the first call returned
TransformAgain ==
    /\ tapplied = 1
    /\ tout' = process_cell_sequence(tout, tin.from_char, tin.to_char, tin.revcomp)
    /\ tapplied' = 2
    /\ UNCHANGED <<tin, pipeVars>>

NextTransform == Transform \/ TransformAgain

SpecTransform == InitTransform /\ [][NextTransform]_vars

----------------------------------------------------------------------------
(* main(): the input files *)

\* The i-th record of the cell file.  The barcodes differ from one index to the
\* next: ACG, tTN, G 0xFF, ACG, ...
CellRec(i) ==
    [id   |-> <<98 + i>>,
     seq  |-> CASE i % 3 = 1 -> <<ByteA, ByteC, ByteG>>
                [] i % 3 = 2 -> <<Bytet, ByteT, ByteN>>
                [] OTHER     -> <<ByteG, 255>>,
     qual |-> Some(<<70, 70, 70>>)]

\* The i-th record of the r1 file (FASTQ: it has a quality line)
R1Rec(i) == [id |-> <<48 + i>>, seq |-> <<64 + i>>, qual |-> Some(<<32 + i>>)]

\* The i-th record of the r2 file: FASTQ, or FASTA (no quality)
R2Rec(i, fasta) ==
    [id   |-> <<80 + i>>, seq |-> <<96 + i>>,
     qual |-> IF fasta THEN None ELSE Some(<<48 + i>>)]

\* the command lines run: no option, and --from-char 1 --to-char 2 --recomp
CliOpts ==
    { [from_char |-> None, to_char |-> None, recomp |-> FALSE],
      [from_char |-> Some(1), to_char |-> Some(2), recomp |-> TRUE] }

Init ==
    /\ cli \in CliOpts
    /\ \E n \in 0..MaxRecs : cell_reader = [i \in 1..n |-> CellRec(i)]
    /\ \E n \in 0..MaxRecs : r1_reader = [i \in 1..n |-> R1Rec(i)]
    /\ \/ r2_reader = None
       \/ \E n \in 0..MaxRecs, fasta \in BOOLEAN :
              /\ n = 0 => ~fasta
              /\ r2_reader = Some([i \in 1..n |-> R2Rec(i, fasta)])
    /\ cellPos = 0 /\ r1Pos = 0 /\ r2Pos = 0
    /\ r1_writer = [calls |-> <<>>, state |-> "open"]
    /\ r2_writer = IF r2_reader = None THEN None
                   ELSE Some([calls |-> <<>>, state |-> "open"])
    /\ pc = "pull" /\ stop = "none" /\ result = "running" /\ shorts = 0
    /\ tin = [seq |-> <<>>, from_char |-> None, to_char |-> None, revcomp |-> FALSE]
    /\ tout = <<>>
    /\ tapplied = 0

----------------------------------------------------------------------------
(* main(): the loop *)

\* reader.next() is Some(Ok(r)): the reader still holds a valid record
HasNext(reader, pos) == pos < Len(reader)

\* What reader.next() is when it is not Some(Ok(r)): None at the end of the
\* file, Some(Err(e)) at a record that does not decode.  A file without any
\* byte does not get past parse_fastx_file, so a reader that yields no record
\* at all does so by a decode error.
NoRecord(reader) == IF Len(reader) = 0 THEN {"err"} ELSE {"eof", "err"}

\* PullCellBreak with r1_reader.next() called before cell_reader.next()
PullCellBreak_R1First ==
    /\ pc = "pull"
    /\ ~HasNext(cell_reader, cellPos)
    /\ r1Pos' = IF HasNext(r1_reader, r1Pos) THEN r1Pos + 1 ELSE r1Pos
    /\ \E kind \in NoRecord(cell_reader) : stop' = <<"cell", kind>>
    /\ pc' = "drop"
    /\ result' = "Ok"
    /\ UNCHANGED <<cli, cell_reader, r1_reader, r2_reader, cellPos, r2Pos,
                   r1_writer, r2_writer, shorts, pureVars>>

\* lines 168-171: the cell reader yields no record: break
PullCellBreak ==
    /\ pc = "pull"
    /\ ~HasNext(cell_reader, cellPos)
    /\ \E kind \in NoRecord(cell_reader) : stop' = <<"cell", kind>>
    /\ pc' = "drop"
    /\ result' = "Ok"
    /\ UNCHANGED <<cli, cell_reader, r1_reader, r2_reader, cellPos, r1Pos, r2Pos,
                   r1_writer, r2_writer, shorts, pureVars>>

\* PullR1Break with the missing r1 record returned as an error instead of break
PullR1Break_AsError ==
    /\ pc = "pull"
    /\ HasNext(cell_reader, cellPos)
    /\ ~HasNext(r1_reader, r1Pos)
    /\ cellPos' = cellPos + 1
    /\ \E kind \in NoRecord(r1_reader) : stop' = <<"r1", kind>>
    /\ pc' = "drop"
    /\ result' = "Err"
    /\ UNCHANGED <<cli, cell_reader, r1_reader, r2_reader, r1Pos, r2Pos,
                   r1_writer, r2_writer, shorts, pureVars>>

\* lines 168-175: the cell reader yields a record, the r1 reader none: break
PullR1Break ==
    /\ pc = "pull"
    /\ HasNext(cell_reader, cellPos)
    /\ ~HasNext(r1_reader, r1Pos)
    /\ cellPos' = cellPos + 1
    /\ \E kind \in NoRecord(r1_reader) : stop' = <<"r1", kind>>
    /\ pc' = "drop"
    /\ result' = "Ok"
    /\ UNCHANGED <<cli, cell_reader, r1_reader, r2_reader, r1Pos, r2Pos,
                   r1_writer, r2_writer, shorts, pureVars>>

\* lines 168-180: cell and r1 yield a record, the configured r2 reader none: break
PullR2Break ==
    /\ pc = "pull"
    /\ HasNext(cell_reader, cellPos)
    /\ HasNext(r1_reader, r1Pos)
    /\ r2_reader # None
    /\ ~HasNext(r2_reader[1], r2Pos)
    /\ cellPos' = cellPos + 1
    /\ r1Pos' = r1Pos + 1
    /\ \E kind \in NoRecord(r2_reader[1]) : stop' = <<"r2", kind>>
    /\ pc' = "drop"
    /\ result' = "Ok"
    /\ UNCHANGED <<cli, cell_reader, r1_reader, r2_reader, r2Pos,
                   r1_writer, r2_writer, shorts, pureVars>>

\* lines 168-182: every configured reader yields a record
PullAll ==
    /\ pc = "pull"
    /\ HasNext(cell_reader, cellPos)
    /\ HasNext(r1_reader, r1Pos)
    /\ r2_reader # None => HasNext(r2_reader[1], r2Pos)
    /\ cellPos' = cellPos + 1
    /\ r1Pos' = r1Pos + 1
    /\ r2Pos' = IF r2_reader # None THEN r2Pos + 1 ELSE r2Pos
    /\ pc' = "write_r1"
    /\ UNCHANGED <<cli, cell_reader, r1_reader, r2_reader, r1_writer, r2_writer,
                   stop, result, shorts, pureVars>>

\* line 185-186: cell, the bytes of the barcode annotation of this iteration
CellAnnotation ==
    process_cell_sequence(cell_reader[cellPos].seq, cli.from_char, cli.to_char,
                          cli.recomp)

\* What one call writer.write(buf) can return (GzEncoder is an io::Write):
\* Ok(n) with n = buf.len(), Ok(n) with 0 < n < buf.len() when the encoder
\* takes only a prefix of buf, or Err(e).  The caller sees that value only.
WriteOutcomes(buf) ==
    {[ok |-> TRUE, n |-> Len(buf)]}
        \cup {[ok |-> TRUE, n |-> k] : k \in IF shorts < MaxShort THEN 1..(Len(buf) - 1) ELSE {}}
        \cup {[ok |-> FALSE, n |-> 0]}

\* The encoder after write(buf) returned r: the bytes it took are in its stream
AfterWrite(w, buf, r) ==
    IF r.ok THEN [w EXCEPT !.calls = Append(@, [buf |-> buf, n |-> r.n])] ELSE w

\* lines 192-193: r1_writer.write(r1_str.as_bytes())?
WriteR1 ==
    /\ pc = "write_r1"
    /\ LET r1_rec == r1_reader[r1Pos]
           r1_str == fastq_record_to_string(r1_rec.id, CellAnnotation, r1_rec.seq,
                                            r1_rec.qual)
       IN  \E r \in WriteOutcomes(r1_str) :
               /\ r1_writer' = AfterWrite(r1_writer, r1_str, r)
               /\ shorts' = IF r.ok /\ r.n < Len(r1_str) THEN shorts + 1 ELSE shorts
               /\ IF r.ok
                  THEN /\ pc' = IF r2_writer # None THEN "write_r2" ELSE "pull"
                       /\ UNCHANGED <<stop, result>>
                  ELSE /\ pc' = "drop"
                       /\ stop' = <<"write", "r1">>
                       /\ result' = "Err"
    /\ UNCHANGED <<cli, cell_reader, r1_reader, r2_reader, cellPos, r1Pos, r2Pos,
                   r2_writer, pureVars>>

\* lines 196-199: r2_writer.write(r2_str.as_bytes())?
WriteR2 ==
    /\ pc = "write_r2"
    /\ LET r2_rec == r2_reader[1][r2Pos]
           r2_str == fastq_record_to_string(r2_rec.id, CellAnnotation, r2_rec.seq,
                                            r2_rec.qual)
       IN  \E r \in WriteOutcomes(r2_str) :
               /\ r2_writer' = Some(AfterWrite(r2_writer[1], r2_str, r))
               /\ shorts' = IF r.ok /\ r.n < Len(r2_str) THEN shorts + 1 ELSE shorts
               /\ IF r.ok
                  THEN /\ pc' = "pull"
                       /\ UNCHANGED <<stop, result>>
                  ELSE /\ pc' = "drop"
                       /\ stop' = <<"write", "r2">>
                       /\ result' = "Err"
    /\ UNCHANGED <<cli, cell_reader, r1_reader, r2_reader, cellPos, r1Pos, r2Pos,
                   r1_writer, pureVars>>

\* An encoder dropped: Drop for GzEncoder runs try_finish (the rest of the
\* deflate stream and the gzip trailer, flushed through the BufWriter to the
\* file) and discards its io::Result.
Dropped(w, flushed) == [w EXCEPT !.state = IF flushed THEN "finished" ELSE "failed"]

\* lines 200-203: main returns (Ok(()) after a break, the Err of a ?), and
\* r2_writer and r1_writer go out of scope
DropWriters ==
    /\ pc = "drop"
    /\ \E f1 \in BOOLEAN, f2 \in BOOLEAN :
           /\ r1_writer' = Dropped(r1_writer, f1)
           /\ r2_writer' = IF r2_writer = None THEN None
                           ELSE Some(Dropped(r2_writer[1], f2))
    /\ pc' = "done"
    /\ UNCHANGED <<cli, cell_reader, r1_reader, r2_reader, cellPos, r1Pos, r2Pos,
                   stop, result, shorts, pureVars>>

Next ==
    \/ PullCellBreak
    \/ PullR1Break
    \/ PullR2Break
    \/ PullAll
    \/ WriteR1
    \/ WriteR2
    \/ DropWriters

Spec == Init /\ [][Next]_vars

----------------------------------------------------------------------------
(* The output files, as tests/integration.rs reads them back *)

\* The bytes the encoder took, in order: the decompressed content of the file
\* once the encoder has finished
Accepted(w) == Flatten([k \in 1..Len(w.calls) |-> SubSeq(w.calls[k].buf, 1, w.calls[k].n)])

FirstNewline(b) ==
    IF \E i \in 1..Len(b) : b[i] = ByteNewline
    THEN CHOOSE i \in 1..Len(b) : b[i] = ByteNewline /\ \A j \in 1..(i - 1) : b[j] # ByteNewline
    ELSE 0

\* the lines of b, a last one without its line feed included
RECURSIVE SplitLines(_)
SplitLines(b) ==
    IF b = <<>> THEN <<>>
    ELSE LET k == FirstNewline(b)
         IN  IF k = 0 THEN <<b>>
             ELSE <<SubSeq(b, 1, k - 1)>> \o SplitLines(SubSeqFrom(b, k + 1))

\* lines 4k-3 .. 4k are a FASTQ record: an @ line, a sequence, a + line, a quality
IsRecordAt(ls, k) ==
    /\ 4 * k <= Len(ls)
    /\ ls[4 * k - 3] # <<>> /\ ls[4 * k - 3][1] = ByteAt
    /\ ls[4 * k - 1] # <<>> /\ ls[4 * k - 1][1] = BytePlus

\* The records a FASTQ reader yields from b before the end or the first record
\* that does not decode; id is the whole header line after the @
ParseFastq(b) ==
    LET ls == SplitLines(b)
        n  == CHOOSE m \in 0..(Len(ls) \div 4) :
                  /\ \A k \in 1..m : IsRecordAt(ls, k)
                  /\ m < Len(ls) \div 4 => ~IsRecordAt(ls, m + 1)
    IN  [records |-> [k \in 1..n |-> [id   |-> Tail(ls[4 * k - 3]),
                                      seq  |-> ls[4 * k - 2],
                                      qual |-> ls[4 * k]]],
         clean   |-> Len(ls) = 4 * n]

Contains(h, x) == \E i \in 0..(Len(h) - Len(x)) : SubSeq(h, i + 1, i + Len(x)) = x

StartsWith(h, x) == Len(x) <= Len(h) /\ SubSeq(h, 1, Len(x)) = x

----------------------------------------------------------------------------
(* What the claims speak of *)

\* the barcode annotation of cell record k
Barcode(k) ==
    process_cell_sequence(cell_reader[k].seq, cli.from_char, cli.to_char, cli.recomp)

\* the text of a quality line
QualText(qual) == IF qual = None THEN <<>> ELSE from_utf8_lossy(qual[1])

\* record k of a parsed output is input record rec annotated with barcode k
Annotated(parsed, k, rec) ==
    /\ k <= Len(parsed.records)
    /\ StartsWith(parsed.records[k].id, from_utf8_lossy(rec.id))
    /\ Contains(parsed.records[k].id, Barcode(k))
    /\ parsed.records[k].seq = from_utf8_lossy(rec.seq)
    /\ parsed.records[k].qual = QualText(rec.qual)

Finished(w) == w.state = "finished"

\* the run is over and no write call and no finalization failed
EndedClean ==
    /\ pc = "done"
    /\ result = "Ok"
    /\ Finished(r1_writer)
    /\ r2_writer # None => Finished(r2_writer[1])

(* C1: when the cell, r1 and r2 streams hold the same number N of valid
   records and no write fails, both outputs contain exactly N records, and
   record i of each output is input record i of that stream with the barcode
   of cell record i in its header line. *)
C1_EqualStreamsAnnotated ==
    (/\ EndedClean
     /\ r2_reader # None
     /\ Len(r1_reader) = Len(cell_reader)
     /\ Len(r2_reader[1]) = Len(cell_reader))
    => LET N  == Len(cell_reader)
           o1 == ParseFastq(Accepted(r1_writer))
           o2 == ParseFastq(Accepted(r2_writer[1]))
       IN  /\ o1.clean /\ Len(o1.records) = N
           /\ o2.clean /\ Len(o2.records) = N
           /\ \A i \in 1..N : /\ Annotated(o1, i, r1_reader[i])
                              /\ Annotated(o2, i, r2_reader[1][i])

(* C2: when the configured r2 stream yields no record in an iteration in
   which cell and r1 yielded one, the run ends there and both outputs end with
   exactly as many records as r2 held (3 for cell and r1 of 5 and r2 of 3). *)
C2_SecondaryExhaustionStopsRun ==
    (/\ EndedClean
     /\ r2_reader # None
     /\ Len(r2_reader[1]) < Len(cell_reader)
     /\ Len(r2_reader[1]) < Len(r1_reader))
    => LET o1 == ParseFastq(Accepted(r1_writer))
           o2 == ParseFastq(Accepted(r2_writer[1]))
       IN  /\ stop[1] = "r2"
           /\ o1.clean /\ Len(o1.records) = Len(r2_reader[1])
           /\ o2.clean /\ Len(o2.records) = Len(r2_reader[1])

\* write call k on w handed over input record rec formatted with barcode k
WroteRecord(w, k, rec) ==
    w.calls[k].buf = fastq_record_to_string(rec.id, Barcode(k), rec.seq, rec.qual)

\* the loop was left because the cell or the r1 reader yielded no record
LeftOnExhaustion == stop # "none" /\ stop[1] \in {"cell", "r1"}

C3_AtEnd ==
    /\ stop # "none" <=> pc \in {"drop", "done"}
    /\ LeftOnExhaustion =>
          LET iters == IF stop[1] = "cell" THEN cellPos ELSE cellPos - 1
          IN  /\ result = "Ok"
              /\ r1Pos = iters
              /\ Len(r1_writer.calls) = iters
              /\ \A k \in 1..iters : WroteRecord(r1_writer, k, r1_reader[k])
              /\ r2_writer # None =>
                    /\ r2Pos = iters
                    /\ Len(r2_writer[1].calls) = iters
                    /\ \A k \in 1..iters : WroteRecord(r2_writer[1], k, r2_reader[1][k])
              /\ pc = "done" =>
                    /\ r1_writer.state # "open"
                    /\ r2_writer # None => r2_writer[1].state # "open"

\* the step out of the loop, and the one to the end of main after it
C3_Step ==
    LeftOnExhaustion' =>
        /\ pc' = IF pc = "pull" THEN "drop" ELSE "done"
        /\ r1_writer'.calls = r1_writer.calls
        /\ r2_writer # None => r2_writer'[1].calls = r2_writer[1].calls
        /\ result' = "Ok"

(* C3: when the cell stream or the r1 stream yields no further record (end of
   stream or decode error), the loop is left at once and nothing is written
   in that iteration or after it: each encoder keeps exactly one write call
   per earlier iteration, for the record of that iteration; main returns Ok,
   and by then each encoder has been finalized. *)
C3_ExhaustionIsNormalEnd == [](C3_AtEnd) /\ [][C3_Step]_vars

C3_Witness ==
    /\ pc = "done"
    /\ stop \in {<<"cell", "eof">>, <<"r1", "err">>}
    /\ Len(r1_writer.calls) = 2
    /\ r2_writer # None
    /\ Finished(r1_writer) /\ Finished(r2_writer[1])

(* C4, as claimed: at every point of the run, the state after it has ended
   included, as many records have been consumed from the cell stream as from
   the r1 stream. *)
C4_Lockstep == cellPos = r1Pos

(* C4, amended: between iterations and after the run has ended, the cell
   stream has yielded as many records as the r1 stream, except after a run
   that ended because the r1 stream yielded no record in an iteration in
   which the cell stream did: then the cell stream is exactly one ahead. *)
C4_LockstepButR1Break ==
    /\ cellPos \in {r1Pos, r1Pos + 1}
    /\ cellPos = r1Pos + 1 <=> (stop # "none" /\ stop[1] = "r1")

C4_Witness ==
    /\ pc = "done"
    /\ stop = <<"r1", "eof">>
    /\ r1Pos = 2
    /\ cellPos = 3

\* every write call on w took its whole buffer
AllTaken(w) == \A k \in 1..Len(w.calls) : w.calls[k].n = Len(w.calls[k].buf)

(* C5: when finalizing an output fails after every write call was accepted,
   the run does not report success. *)
C5_FinalizeFailureSurfaced ==
    (/\ pc = "done"
     /\ ~(stop[1] = "write")
     /\ Len(r1_writer.calls) > 0
     /\ AllTaken(r1_writer)
     /\ r2_writer # None => AllTaken(r2_writer[1])
     /\ \/ r1_writer.state = "failed"
        \/ r2_writer # None /\ r2_writer[1].state = "failed")
    => result # "Ok"

(* C6: every formatted record has been handed to its encoder in full before
   the next record is pulled or written: no write call leaves a rest of its
   record behind, so every record of an output has its four lines. *)
C6_RecordsWrittenInFull ==
    pc \in {"pull", "drop", "done"} =>
        /\ AllTaken(r1_writer)
        /\ ParseFastq(Accepted(r1_writer)).clean
        /\ r2_writer # None =>
              /\ AllTaken(r2_writer[1])
              /\ ParseFastq(Accepted(r2_writer[1])).clean

(* C10: with r2 configured, between iterations and at the end of every run
   without a write error, both outputs contain the same number of records and
   record k of both carries the barcode of cell record k; after a write error
   the r1 output is at most one record ahead. *)
C10_MatesStayPaired ==
    r2_reader # None =>
        LET o1 == ParseFastq(Accepted(r1_writer))
            o2 == ParseFastq(Accepted(r2_writer[1]))
        IN  /\ (pc = "pull" \/ (pc = "done" /\ stop[1] # "write")) =>
                  /\ Len(o1.records) = Len(o2.records)
                  /\ \A k \in 1..Len(o1.records) :
                         /\ Contains(o1.records[k].id, Barcode(k))
                         /\ Contains(o2.records[k].id, Barcode(k))
            /\ (pc = "done" /\ stop[1] = "write") =>
                  Len(o1.records) - Len(o2.records) \in {0, 1}

----------------------------------------------------------------------------
(* process_cell_sequence: what the claims speak of *)

\* s[start..end) of the claim, or s when start >= end or end > length(s)
WindowOf(t) ==
    LET start == IF t.from_char = None THEN 0 ELSE t.from_char[1]
        end   == IF t.to_char = None THEN Len(t.seq) ELSE t.to_char[1]
    IN  IF start < end /\ end <= Len(t.seq)
        THEN [i \in 1..(end - start) |-> t.seq[start + i]]
        ELSE t.seq

IsAscii(s) == \A i \in 1..Len(s) : s[i] < 128

\* A<->T, C<->G, N->N in either case, anything else -> N
ComplementOf(b) ==
    IF b \in {65, 97} THEN 84
    ELSE IF b \in {84, 116} THEN 65
    ELSE IF b \in {67, 99} THEN 71
    ELSE IF b \in {71, 103} THEN 67
    ELSE 78

UpperOf(b) == IF b >= 97 /\ b <= 122 THEN b - 32 ELSE b

OnlyACGTN(s) == \A i \in 1..Len(s) : UpperOf(s[i]) \in {65, 67, 71, 84, 78}

OnlyUpperACGTN(s) == \A i \in 1..Len(s) : s[i] \in {65, 67, 71, 84, 78}

(* C7, as claimed: without reverse-complement process_cell_sequence returns
   exactly s[start..end) when start < end and end <= length(s), and s itself
   in every other case. *)
C7_ClipVerbatim ==
    (tapplied = 1 /\ ~tin.revcomp) => tout = WindowOf(tin)

(* C7, amended: without reverse-complement process_cell_sequence returns the
   lossy UTF-8 decoding of s[start..end) when start < end and end <=
   length(s), and of s in every other case: exactly those bytes when they are
   ASCII, and with U+FFFD for each byte sequence that is not UTF-8. *)
C7_ClipLossy ==
    (tapplied = 1 /\ ~tin.revcomp) =>
        /\ tout = from_utf8_lossy(WindowOf(tin))
        /\ IsAscii(WindowOf(tin)) => tout = WindowOf(tin)
        /\ (tin.from_char = None /\ tin.to_char = None /\ IsAscii(tin.seq)) => tout = tin.seq
        /\ tin.seq = <<65, 84, 71, 67>> /\ tin.from_char = Some(10) /\ tin.to_char = Some(0)
              => tout = <<65, 84, 71, 67>>

C7_Witness ==
    /\ tapplied = 1
    /\ ~tin.revcomp
    /\ tin.seq = <<65, 67, 71, 84, 84, 65, 71, 67>>
    /\ tin.from_char = Some(1)
    /\ tin.to_char = Some(3)
    /\ tout = <<67, 71>>

(* C8: with reverse-complement requested process_cell_sequence returns the
   resolved window in reversed order, each symbol complemented (A<->T, C<->G,
   N->N in either case, in upper case) and every other symbol as N; the
   result is as long as the window.  ACGTTAGC with [2,5) gives AAC, ATGC
   gives GCAT, CCACCC with [2,3) gives T. *)
C8_ReverseComplement ==
    (tapplied = 1 /\ tin.revcomp) =>
        LET w == WindowOf(tin)
        IN  /\ Len(tout) = Len(w)
            /\ \A i \in 1..Len(w) : tout[i] = ComplementOf(w[Len(w) + 1 - i])
            /\ (tin.seq = <<65, 67, 71, 84, 84, 65, 71, 67>> /\ tin.from_char = Some(2)
                    /\ tin.to_char = Some(5)) => tout = <<65, 65, 67>>
            /\ (tin.seq = <<65, 84, 71, 67>> /\ tin.from_char = None
                    /\ tin.to_char = None) => tout = <<71, 67, 65, 84>>
            /\ (tin.seq = <<67, 67, 65, 67, 67, 67>> /\ tin.from_char = Some(2)
                    /\ tin.to_char = Some(3)) => tout = <<84>>

C8_Witness ==
    /\ tapplied = 1
    /\ tin.revcomp
    /\ tin.seq = <<65, 67, 71, 84, 84, 65, 71, 67>>
    /\ tin.from_char = Some(2)
    /\ tin.to_char = Some(5)
    /\ tout = <<65, 65, 67>>

(* C9, as claimed: for every s of A, C, G, T, N in either case, applying
   process_cell_sequence with no clip and reverse-complement twice returns
   exactly s. *)
C9_DoubleRevcompIdentity ==
    (/\ tapplied = 2 /\ tin.revcomp
     /\ tin.from_char = None /\ tin.to_char = None
     /\ OnlyACGTN(tin.seq))
    => tout = tin.seq

(* C9, amended: for every s of A, C, G, T, N in either case, applying
   process_cell_sequence with no clip and reverse-complement twice returns s
   in upper case: exactly s when s holds only upper-case A, C, G, T, N. *)
C9_DoubleRevcompUpper ==
    (/\ tapplied = 2 /\ tin.revcomp
     /\ tin.from_char = None /\ tin.to_char = None
     /\ OnlyACGTN(tin.seq))
    => /\ tout = [i \in 1..Len(tin.seq) |-> UpperOf(tin.seq[i])]
       /\ OnlyUpperACGTN(tin.seq) => tout = tin.seq

C9_Witness ==
    /\ tapplied = 2 /\ tin.revcomp
    /\ tin.from_char = None /\ tin.to_char = None
    /\ tin.seq = <<97, 67, 103, 84, 110>>
    /\ tout = <<65, 67, 71, 84, 78>>

====
